---- MODULE Spec2Model ----
(***************************************************************************)
(* Model of latency_monitor.py: the ping prober, the output parser, the    *)
(* statistics, the alert policy, the reporter and the main loop.           *)
(*                                                                         *)
(* Text is modelled as a sequence of atoms (words, numerals, punctuation   *)
(* and the blank " "); a line is one such sequence and an output is a      *)
(* sequence of lines (the result of str.splitlines).  Numerals are single  *)
(* atoms; their float value is kept in thousandths, a rounded statistic in *)
(* hundredths (two decimals).                                              *)
(***************************************************************************)
EXTENDS Integers, Sequences, FiniteSets, TLC

VARIABLES system, GMAIL_USER, GMAIL_PASS, interval,
          pc, exc, now, output, spawn_failed, latencies, stats,
          log, log_start, line, calls, attempts, mail

vars == <<system, GMAIL_USER, GMAIL_PASS, interval,
          pc, exc, now, output, spawn_failed, latencies, stats,
          log, log_start, line, calls, attempts, mail>>

----------------------------------------------------------------------------
(* Bounds *)

MaxLines == 2
MaxCycles == 2

----------------------------------------------------------------------------
(* Optional values: Python's None and a present value *)

None == <<>>
Some(v) == <<v>>

----------------------------------------------------------------------------
(* String operations on atom sequences *)

Last(s) == s[Len(s)]

LowerAtom(a) ==
    CASE a = "Lost" -> "lost"
      [] a = "Sent" -> "sent"
      [] a = "Received" -> "received"
      [] a = "Reply" -> "reply"
      [] a = "TTL" -> "ttl"
      [] a = "TIME" -> "time"
      [] a = "Packets" -> "packets"
      [] a = "Ping" -> "ping"
      [] a = "Errno" -> "errno"
      [] OTHER -> a

\* str.lower
Lower(s) == [i \in DOMAIN s |-> LowerAtom(s[i])]

\* index of the first occurrence of pat in s, 0 when there is none
Find(s, pat) ==
    LET hits == {i \in 1..(Len(s) - Len(pat) + 1) : SubSeq(s, i, i + Len(pat) - 1) = pat}
    IN IF hits = {} THEN 0 ELSE CHOOSE i \in hits : \A j \in hits : i <= j

\* pat in s
Contains(s, pat) == Find(s, pat) # 0

RECURSIVE SplitOn(_, _)
\* str.split(sep)
SplitOn(s, sep) ==
    LET i == Find(s, sep)
    IN IF i = 0 THEN <<s>>
       ELSE <<SubSeq(s, 1, i - 1)>> \o SplitOn(SubSeq(s, i + Len(sep), Len(s)), sep)

RECURSIVE LStrip(_)
LStrip(s) == IF s # <<>> /\ s[1] = " " THEN LStrip(Tail(s)) ELSE s

RECURSIVE RStrip(_)
RStrip(s) == IF s # <<>> /\ Last(s) = " " THEN RStrip(SubSeq(s, 1, Len(s) - 1)) ELSE s

\* str.strip
Strip(s) == RStrip(LStrip(s))

RECURSIVE SplitWS(_)
\* str.split() with no separator: the maximal runs of non-blank atoms
SplitWS(s) ==
    LET t == LStrip(s)
        blanks == {i \in 1..Len(t) : t[i] = " "}
        e == IF blanks = {} THEN Len(t) + 1 ELSE CHOOSE i \in blanks : \A j \in blanks : i <= j
    IN IF t = <<>> THEN <<>>
       ELSE <<SubSeq(t, 1, e - 1)>> \o SplitWS(SubSeq(t, e, Len(t)))

\* str.replace(a, "") for a one-atom a
Remove(s, a) == SelectSeq(s, LAMBDA x : x # a)

----------------------------------------------------------------------------
(* Numerals *)

\* the numerals float() accepts, with their value in thousandths
FloatLit ==
    [x \in {"0", "0.01", "1", "3", "4", "5", "10.0", "12.5", "14", "32", "50", "100", "117", "128", "4005"} |->
        CASE x = "0" -> 0
          [] x = "0.01" -> 10
          [] x = "1" -> 1000
          [] x = "3" -> 3000
          [] x = "4" -> 4000
          [] x = "5" -> 5000
          [] x = "10.0" -> 10000
          [] x = "12.5" -> 12500
          [] x = "14" -> 14000
          [] x = "32" -> 32000
          [] x = "50" -> 50000
          [] x = "100" -> 100000
          [] x = "117" -> 117000
          [] x = "128" -> 128000
          [] x = "4005" -> 4005000]

\* the numerals int() accepts
IntLit == {x \in DOMAIN FloatLit : FloatLit[x] % 1000 = 0 /\ x # "10.0"}

\* float(s): the value in thousandths, None for ValueError
ParseFloat(s) ==
    LET t == Strip(s)
    IN IF Len(t) = 1 /\ t[1] \in DOMAIN FloatLit THEN Some(FloatLit[t[1]]) ELSE None

\* int(s): the value, None for ValueError
ParseInt(s) ==
    LET t == Strip(s)
    IN IF Len(t) = 1 /\ t[1] \in IntLit THEN Some(FloatLit[t[1]] \div 1000) ELSE None

\* num/den rounded to the nearest integer, ties to even (num >= 0, den > 0)
RoundHalfEven(num, den) ==
    LET q == num \div den
        r == num % den
    IN IF 2 * r < den THEN q
       ELSE IF 2 * r > den THEN q + 1
       ELSE IF q % 2 = 0 THEN q ELSE q + 1

\* round(x, 2) of a ratio num/den: the result in hundredths
Round2(num, den) == RoundHalfEven(num * 100, den)

----------------------------------------------------------------------------
(* parse_ping_output *)

\* "time=" in line.lower()
has_time_marker(ln) == Contains(Lower(ln), <<"time", "=">>)

\* [part for part in line.split() if "time=" in part.lower() or "time<" in part.lower()]
time_part(ln) ==
    SelectSeq(SplitWS(ln),
              LAMBDA part : \/ Contains(Lower(part), <<"time", "=">>)
                            \/ Contains(Lower(part), <<"time", "<">>))

\* time_part[0].split("=")[-1].replace("ms", "").replace("<", "").strip()
latency_str(part) == Strip(Remove(Remove(Last(SplitOn(part, <<"=">>)), "ms"), "<"))

\* the body of the latency try block: [raised, sample]
latency_try(ln) ==
    LET tp == time_part(ln)
        v == IF tp = <<>> THEN None ELSE ParseFloat(latency_str(tp[1]))
    IN [raised |-> tp # <<>> /\ v = None, sample |-> v]

\* float(line.split("%")[0].split()[-1]) as a ratio, None when it raises
unix_loss_value(ln) ==
    LET toks == SplitWS(SplitOn(ln, <<"%">>)[1])
        v == IF toks = <<>> THEN None ELSE ParseFloat(Last(toks))
    IN IF v = None THEN None ELSE Some([num |-> v[1], den |-> 1000])

\* (lost / sent) * 100 from the "lost =" and "sent =" fields, None when it raises
windows_loss_value(ln) ==
    LET low == Lower(ln)
        loss_part == SplitOn(low, <<"lost", " ", "=">>)[2]
        lost == ParseInt(SplitOn(loss_part, <<",">>)[1])
        sp == SplitOn(low, <<"sent", " ", "=">>)
        sent == IF Len(sp) < 2 THEN None ELSE ParseInt(SplitOn(sp[2], <<",">>)[1])
    IN IF lost = None \/ sent = None THEN None
       ELSE IF sent[1] = 0 THEN None
       ELSE Some([num |-> lost[1] * 100, den |-> sent[1]])

\* a loss try block that forgets the earlier value when the parse raises
loss_update_erasing(packet_loss, parsed) == parsed

\* packet_loss after one loss try block: assigned on success, kept on "except: pass"
loss_update(packet_loss, parsed) == IF parsed = None THEN packet_loss ELSE parsed

\* one iteration of the for loop over the lines
parse_line(sys, st, raw) ==
    LET ln == Strip(raw)
        marker == has_time_marker(ln)
        lt == IF marker THEN latency_try(ln) ELSE [raised |-> FALSE, sample |-> None]
        lat == IF lt.sample = None THEN st.latencies ELSE Append(st.latencies, lt.sample[1])
        pl1 == IF sys # "Windows" /\ Contains(ln, <<"packet", " ", "loss">>)
               THEN loss_update(st.packet_loss, unix_loss_value(ln))
               ELSE st.packet_loss
        pl2 == IF sys = "Windows" /\ Contains(Lower(ln), <<"lost", " ", "=">>)
               THEN loss_update(pl1, windows_loss_value(ln))
               ELSE pl1
    IN IF lt.raised THEN st
       ELSE [latencies |-> lat, packet_loss |-> pl2]

RECURSIVE scan_lines(_, _, _)
\* the for loop over output.splitlines(), from line i on
scan_lines(sys, out, i) ==
    IF i = 0 THEN [latencies |-> <<>>, packet_loss |-> None]
    ELSE LET st == scan_lines(sys, out, i - 1)
         IN parse_line(sys, st, out[i])

RECURSIVE SeqSum(_)
SeqSum(s) == IF s = <<>> THEN 0 ELSE s[1] + SeqSum(Tail(s))

SeqMin(s) == CHOOSE x \in {s[i] : i \in DOMAIN s} : \A i \in DOMAIN s : x <= s[i]

SeqMax(s) == CHOOSE x \in {s[i] : i \in DOMAIN s} : \A i \in DOMAIN s : x >= s[i]

RECURSIVE Sorted(_)
\* sorted(data), by insertion
Sorted(s) ==
    IF s = <<>> THEN <<>>
    ELSE LET rest == Sorted(Tail(s))
             k == Cardinality({i \in DOMAIN rest : rest[i] <= s[1]})
         IN SubSeq(rest, 1, k) \o <<s[1]>> \o SubSeq(rest, k + 1, Len(rest))

\* round(statistics.mean(latencies), 2), in hundredths
mean_of(lat) == RoundHalfEven(SeqSum(lat), 10 * Len(lat))

\* round(statistics.median(latencies), 2), in hundredths
median_of(lat) ==
    LET d == Sorted(lat)
        n == Len(d)
    IN IF n % 2 = 1 THEN RoundHalfEven(d[(n + 1) \div 2], 10)
       ELSE RoundHalfEven(d[n \div 2] + d[n \div 2 + 1], 20)

\* the stats dict with a default of 0.0 for an undetermined loss
make_stats_zero_default(lat, packet_loss) ==
    [mean |-> IF lat # <<>> THEN Some(mean_of(lat)) ELSE None,
     median |-> IF lat # <<>> THEN Some(median_of(lat)) ELSE None,
     min |-> IF lat # <<>> THEN Some(RoundHalfEven(SeqMin(lat), 10)) ELSE None,
     max |-> IF lat # <<>> THEN Some(RoundHalfEven(SeqMax(lat), 10)) ELSE None,
     packet_loss |-> IF packet_loss # None
                     THEN Round2(packet_loss[1].num, packet_loss[1].den)
                     ELSE 0]

\* the stats dict: statistics in hundredths, None when there is no sample
make_stats(lat, packet_loss) ==
    [mean |-> IF lat # <<>> THEN Some(mean_of(lat)) ELSE None,
     median |-> IF lat # <<>> THEN Some(median_of(lat)) ELSE None,
     min |-> IF lat # <<>> THEN Some(RoundHalfEven(SeqMin(lat), 10)) ELSE None,
     max |-> IF lat # <<>> THEN Some(RoundHalfEven(SeqMax(lat), 10)) ELSE None,
     packet_loss |-> IF packet_loss # None
                     THEN Round2(packet_loss[1].num, packet_loss[1].den)
                     ELSE 10000]

\* parse_ping_output(output): the samples found and the stats returned
parse_ping_output(sys, out) ==
    LET st == scan_lines(sys, out, Len(out))
    IN [latencies |-> st.latencies, stats |-> make_stats(st.latencies, st.packet_loss)]

----------------------------------------------------------------------------
(* Probe outputs *)

\* a reply line of Unix ping: "... icmp_seq=1 time=V ms" or "... time<V ms"
UnixReply(op, v) == <<"bytes", " ", "icmp_seq", "=", "1", " ", "time", op, v, " ", "ms">>

\* a reply line of Windows ping: "Reply ... bytes=32 time=Vms TTL=128" or "... time<Vms ..."
WinReply(op, v) == <<"Reply", " ", "bytes", "=", "32", " ", "time", op, v, "ms", " ", "TTL", "=", "128">>

\* the summary of Unix ping: "5 transmitted, 5 received, P% packet loss, time 4005ms"
UnixSummary(p) ==
    <<"5", " ", "transmitted", ",", " ", "5", " ", "received", ",", " ",
      p, "%", " ", "packet", " ", "loss", ",", " ", "time", " ", "4005", "ms">>

\* the summary of Windows ping: "    Packets: Sent = S, Received = R, Lost = L (P% loss),"
WinSummary(s, r, l, p) ==
    <<" ", "Packets", ":", " ", "Sent", " ", "=", " ", s, ",", " ",
      "Received", " ", "=", " ", r, ",", " ",
      "Lost", " ", "=", " ", l, " ", "(", p, "%", " ", "loss", ")", ",">>

\* a loss summary given as bare counts: "Lost = L, Sent = S"
WinCounts(l, s) == <<"Lost", " ", "=", " ", l, ",", " ", "Sent", " ", "=", " ", s>>

\* a line with an unparseable time value followed by a loss percentage
BadTimeWithLoss == <<"time", "=", "abc", " ", "50", "%", " ", "packet", " ", "loss">>

Garbage == <<"garbage">>

\* f"Ping command failed: {e}"
PingFailedText == <<"Ping", " ", "command", " ", "failed", ":", " ", "Errno">>

GarbageLines == {Garbage, PingFailedText, <<>>}

Vocabulary ==
    {UnixReply("=", "10.0"), UnixReply("=", "12.5"), UnixReply("<", "1"), UnixReply("=", "abc"),
     WinReply("=", "14"), WinReply("<", "1"),
     UnixSummary("0"), UnixSummary("50"), UnixSummary("unknown"),
     WinSummary("4", "4", "0", "0"), WinCounts("1", "4"), WinCounts("1", "3"), WinCounts("0", "0"),
     BadTimeWithLoss, Garbage}

Outputs == UNION {[1..n -> Vocabulary] : n \in 0..MaxLines}

Systems == {"Linux", "Windows"}

----------------------------------------------------------------------------
(* The parser alone, applied to every output *)

InitParser ==
    /\ system \in Systems
    /\ GMAIL_USER = "" /\ GMAIL_PASS = "" /\ interval = 0
    /\ pc = "parse_only" /\ exc = "none" /\ now = 0
    /\ output \in Outputs
    /\ spawn_failed = FALSE
    /\ latencies = <<>> /\ stats = None
    /\ log = <<>> /\ log_start = <<>> /\ line = None
    /\ calls = 0 /\ attempts = 0 /\ mail = <<>>

ParseOnly ==
    /\ pc = "parse_only"
    /\ LET r == parse_ping_output(system, output)
       IN latencies' = r.latencies /\ stats' = Some(r.stats)
    /\ pc' = "parsed"
    /\ UNCHANGED <<system, GMAIL_USER, GMAIL_PASS, interval, exc, now, output,
                   spawn_failed, log, log_start, line, calls, attempts, mail>>

NextParser == ParseOnly

SpecParser == InitParser /\ [][NextParser]_vars

----------------------------------------------------------------------------
(* The main loop: run_ping, parse_ping_output, log_results, sleep *)

\* what ping may print in one cycle
ProbeOutputs ==
    {<<UnixReply("=", "10.0"), UnixReply("=", "12.5"), UnixSummary("0")>>,
     <<UnixReply("=", "10.0"), UnixSummary("0.01")>>,
     <<UnixReply("=", "10.0"), UnixSummary("50")>>,
     <<UnixSummary("100")>>,
     <<UnixReply("=", "10.0")>>,
     <<>>,
     <<WinReply("=", "14"), WinSummary("4", "4", "0", "0")>>,
     <<WinCounts("0", "4")>>,
     <<WinCounts("1", "4")>>}

\* args.interval: any integer is accepted; a negative one makes time.sleep raise
Intervals == {-1, 3600}

\* os.getenv of a variable that is unset or empty, or set
Credentials == {"", "set"}

\* not GMAIL_USER or not GMAIL_PASS
credentials_missing == GMAIL_USER = "" \/ GMAIL_PASS = ""

\* the record line: the timestamp and the five statistics
record_line(ts, st) ==
    [timestamp |-> ts, packet_loss |-> st.packet_loss,
     mean |-> st.mean, median |-> st.median, min |-> st.min, max |-> st.max]

Init ==
    /\ system \in Systems
    /\ GMAIL_USER \in Credentials /\ GMAIL_PASS \in Credentials
    /\ interval \in Intervals
    /\ pc = "run_ping" /\ exc = "none" /\ now = 0
    /\ output = <<>>
    /\ spawn_failed = FALSE
    /\ latencies = <<>> /\ stats = None
    /\ log = <<>> /\ log_start = <<>> /\ line = None
    /\ calls = 0 /\ attempts = 0 /\ mail = <<>>

\* run_ping: the stdout of ping, or the failure text when subprocess.run raises
run_ping ==
    /\ pc = "run_ping"
    /\ now < MaxCycles
    /\ \/ /\ output' \in ProbeOutputs
          /\ spawn_failed' = FALSE
       \/ /\ output' = <<PingFailedText>>
          /\ spawn_failed' = TRUE
    /\ log_start' = log /\ line' = None /\ calls' = 0 /\ attempts' = 0
    /\ pc' = "parse"
    /\ UNCHANGED <<system, GMAIL_USER, GMAIL_PASS, interval, exc, now,
                   latencies, stats, log, mail>>

\* stats = parse_ping_output(output)
ParsePingOutput ==
    /\ pc = "parse"
    /\ LET r == parse_ping_output(system, output)
       IN latencies' = r.latencies /\ stats' = Some(r.stats)
    /\ pc' = "log_results"
    /\ UNCHANGED <<system, GMAIL_USER, GMAIL_PASS, interval, exc, now, output,
                   spawn_failed, log, log_start, line, calls, attempts, mail>>

\* log_results up to the print: format the line, append it to the log file;
\* an OSError of open or write is not caught anywhere and ends the process
log_results ==
    /\ pc = "log_results"
    /\ line' = Some(record_line(now, stats[1]))
    /\ \/ /\ log' = Append(log, record_line(now, stats[1]))
          /\ pc' = "alert"
          /\ exc' = exc
       \/ /\ log' = log
          /\ pc' = "exited"
          /\ exc' = "OSError"
    /\ UNCHANGED <<system, GMAIL_USER, GMAIL_PASS, interval, now, output,
                   spawn_failed, latencies, stats, log_start, calls, attempts, mail>>

\* if stats["packet_loss"] > 0: send_email(...)
alert_policy ==
    /\ pc = "alert"
    /\ IF stats[1].packet_loss > 0
       THEN calls' = calls + 1 /\ pc' = "send_email"
       ELSE calls' = calls /\ pc' = "sleep"
    /\ UNCHANGED <<system, GMAIL_USER, GMAIL_PASS, interval, exc, now, output,
                   spawn_failed, latencies, stats, log, log_start, line, attempts, mail>>

\* send_email: skipped without credentials, else one SMTP session that may fail
send_email ==
    /\ pc = "send_email"
    /\ IF credentials_missing
       THEN attempts' = attempts /\ mail' = mail
       ELSE /\ attempts' = attempts + 1
            /\ \E ok \in BOOLEAN :
                 mail' = Append(mail, [subject |-> stats[1].packet_loss,
                                       body |-> line[1], sent |-> ok])
    /\ pc' = "sleep"
    /\ UNCHANGED <<system, GMAIL_USER, GMAIL_PASS, interval, exc, now, output,
                   spawn_failed, latencies, stats, log, log_start, line, calls>>

\* time.sleep(args.interval): ValueError for a negative interval, uncaught
sleep ==
    /\ pc = "sleep"
    /\ IF interval < 0
       THEN pc' = "exited" /\ exc' = "ValueError" /\ now' = now
       ELSE pc' = "run_ping" /\ exc' = exc /\ now' = now + 1
    /\ UNCHANGED <<system, GMAIL_USER, GMAIL_PASS, interval, output,
                   spawn_failed, latencies, stats, log, log_start, line,
                   calls, attempts, mail>>

\* main: the while True loop
Next == run_ping \/ ParsePingOutput \/ log_results \/ alert_policy \/ send_email \/ sleep

Spec == Init /\ [][Next]_vars

----------------------------------------------------------------------------
(* Properties of parse_ping_output, checked under SpecParser *)

\* a token "time=V", "time<V", "time=Vms" or "time<Vms" with a numeral V
is_rtt_token(tok) ==
    /\ Len(tok) \in {3, 4}
    /\ Lower(tok)[1] = "time"
    /\ tok[2] \in {"=", "<"}
    /\ tok[3] \in DOMAIN FloatLit
    /\ Len(tok) = 4 => tok[4] = "ms"

\* the line carries a round-trip-time marker with a parseable value
carries_rtt(ln) == \E k \in DOMAIN SplitWS(ln) : is_rtt_token(SplitWS(ln)[k])

\* the loss value a line yields: None when the line is not a loss line of the
\* platform, when its loss parse raises, or when the scan of the line was
\* abandoned because its time= value did not parse
parsed_loss(sys, raw) ==
    LET ln == Strip(raw)
    IN IF has_time_marker(ln) /\ latency_try(ln).raised THEN None
       ELSE IF sys # "Windows" /\ Contains(ln, <<"packet", " ", "loss">>) THEN unix_loss_value(ln)
       ELSE IF sys = "Windows" /\ Contains(Lower(ln), <<"lost", " ", "=">>) THEN windows_loss_value(ln)
       ELSE None

\* the line is a loss line of the platform
is_loss_line(sys, raw) ==
    \/ sys # "Windows" /\ Contains(Strip(raw), <<"packet", " ", "loss">>)
    \/ sys = "Windows" /\ Contains(Lower(Strip(raw)), <<"lost", " ", "=">>)

\* the loss value each line of the output yields
loss_values == [i \in DOMAIN output |-> parsed_loss(system, output[i])]

all_absent(st) == st.mean = None /\ st.median = None /\ st.min = None /\ st.max = None

\* C2: whenever the returned packet_loss is 100.0, mean, median, min and max
\* are all None
C2_FullLossMeansNoLatency ==
    pc = "parsed" => (stats[1].packet_loss = 10000 => all_absent(stats[1]))

\* C3: the number of extracted samples equals the number of lines that carry
\* a time=V or time<V marker with a parseable value
C3_ExactlyKSamples ==
    pc = "parsed" =>
        Len(latencies) = Cardinality({i \in DOMAIN output : carries_rtt(output[i])})

\* C4: with zero samples the four latency statistics are None; when no line
\* yields a loss value packet_loss is 100.0; garbage or empty output gives
\* zero samples and 100.0
C4_ZeroSamplesAndDefaultLoss ==
    pc = "parsed" =>
        /\ Len(latencies) = 0 => all_absent(stats[1])
        /\ LET lv == loss_values
           IN (\A i \in DOMAIN lv : lv[i] = None) => stats[1].packet_loss = 10000
        /\ (\A i \in DOMAIN output : output[i] \in GarbageLines) =>
               Len(latencies) = 0 /\ stats[1].packet_loss = 10000

\* C4 witness: an output with a loss line that fails to parse and no sample
C4_Witness ==
    /\ pc = "parsed"
    /\ Len(output) >= 2
    /\ \E i \in DOMAIN output : is_loss_line(system, output[i])
    /\ \E i \in DOMAIN output : output[i] \in GarbageLines
    /\ LET lv == loss_values IN \A i \in DOMAIN lv : lv[i] = None
    /\ Len(latencies) = 0
    /\ all_absent(stats[1])
    /\ stats[1].packet_loss = 10000

\* the loss summaries given as counts, with the counts they state
CountLines ==
    {[text |-> WinSummary("4", "4", "0", "0"), lost |-> 0, sent |-> 4],
     [text |-> WinCounts("1", "4"), lost |-> 1, sent |-> 4],
     [text |-> WinCounts("1", "3"), lost |-> 1, sent |-> 3],
     [text |-> WinCounts("0", "0"), lost |-> 0, sent |-> 0]}

\* C8: on Windows a loss summary given as counts lost = L, sent = S with
\* S > 0 yields packet_loss = round(L / S * 100, 2)
C8_LossFromCounts ==
    pc = "parsed" /\ system = "Windows" =>
        \A c \in CountLines :
            (output = <<c.text>> /\ c.sent > 0) =>
                stats[1].packet_loss = RoundHalfEven(c.lost * 10000, c.sent)

\* C10: packet_loss is the rounded value of the last line that yields a loss
\* value, and 100.0 only when no line yields one; a loss line that fails to
\* parse after it changes nothing
C10_LastParsedLossWins ==
    pc = "parsed" =>
        LET lv == loss_values
            last == IF lv = <<>> THEN 0
                    ELSE CHOOSE i \in 0..Len(lv) :
                           /\ i # 0 => lv[i] # None
                           /\ \A j \in (i + 1)..Len(lv) : lv[j] = None
        IN IF last = 0 THEN stats[1].packet_loss = 10000
           ELSE stats[1].packet_loss = Round2(lv[last][1].num, lv[last][1].den)

\* C10 witness: a loss line that parses followed by a loss line that fails
\* to parse (on Windows, a counts line with sent = 0); the first value is
\* reported
C10_Witness ==
    /\ pc = "parsed"
    /\ system = "Windows"
    /\ LET lv == loss_values
       IN \E i, j \in DOMAIN output :
            /\ i < j
            /\ lv[i] # None
            /\ output[j] = WinCounts("0", "0") /\ lv[j] = None
            /\ stats[1].packet_loss # 10000
            /\ stats[1].packet_loss = Round2(lv[i][1].num, lv[i][1].den)

----------------------------------------------------------------------------
(* Properties of the main loop, checked under Spec *)

\* log_results of the current cycle has ended, by returning or by raising
ReporterEnded == pc \in {"sleep", "exited"}

\* log_results of the current cycle has returned
ReporterReturned == pc = "sleep" \/ (pc = "exited" /\ exc = "ValueError")

\* C1: in every cycle log_results calls send_email if and only if the
\* cycle's packet_loss is greater than 0
C1_AlertIffLoss ==
    ReporterEnded => (calls = 1 <=> stats[1].packet_loss > 0)

\* C5: the process never exits, whatever failed in a cycle
C5_NoTerminalState == pc # "exited"

\* C6: when spawning ping raises, run_ping returns a text, the statistics
\* are None with 100.0 loss, a record is appended in that cycle and an alert
\* is attempted, reaching the transport unless the credentials are absent
C6_SpawnFailureCycle ==
    spawn_failed =>
        /\ output = <<PingFailedText>>
        /\ pc \notin {"parse"} => all_absent(stats[1]) /\ stats[1].packet_loss = 10000
        /\ ReporterEnded =>
               /\ log = Append(log_start, line[1])
               /\ calls = 1
               /\ attempts = IF credentials_missing THEN 0 ELSE 1

\* C7: with credentials every cycle with nonzero loss makes exactly one
\* transport attempt; without them none is ever made and the cycle completes
C7_OneAttemptPerLossCycle ==
    /\ credentials_missing => mail = <<>>
    /\ ReporterEnded =>
           /\ (~credentials_missing /\ stats[1].packet_loss > 0) => attempts = 1
           /\ credentials_missing => attempts = 0 /\ ReporterReturned

\* C9: each cycle that reaches the reporter leaves the log one record longer
\* with the earlier records unchanged, the record is in the log before any
\* dispatch, and the alert body is that record
C9_OneRecordPerCycle ==
    /\ ReporterEnded => log = Append(log_start, line[1])
    /\ calls > 0 => log = Append(log_start, line[1])
    /\ attempts > 0 => Last(mail).body = Last(log)

====
